---- MODULE Spec2Model ----
(***************************************************************************)
(* The two Inkscape extensions of the repository, sweat_drop.py (ellipse   *)
(* drops) and sweatdrop_teardrop.py (teardrop paths), as one state         *)
(* machine: one run of effect() on a document whose current layer and      *)
(* defs start empty.  Python's floats are modelled by exact rationals      *)
(* <<numerator, denominator>>; random.random() returns k / RandDen for     *)
(* k in 0 .. RandDen - 1 and random.randint(1000, 9999) returns one of the *)
(* first IdSpan values of its range.                                       *)
(***************************************************************************)
EXTENDS Integers, Sequences, FiniteSets, TLC

(* ------------------------------ bounds -------------------------------- *)
\* drop_count ranges over -1 .. MaxCount
MaxCount == 2
\* random.random() returns k / RandDen, k in 0 .. RandDen - 1
RandDen == 2
\* random.randint(IdLo, 9999) is cut to IdLo .. IdLo + IdSpan - 1
IdSpan == 2
\* only the options whose run tree has at most MaxRuns leaves are explored
MaxRuns == 1024

(* ----------------------------- rationals ------------------------------ *)
Abs(n) == IF n < 0 THEN -n ELSE n

RECURSIVE GCD(_, _)
GCD(a, b) == IF b = 0 THEN a ELSE GCD(b, a % b)

\* n / d in lowest terms, d > 0
R(n, d) == LET g == GCD(Abs(n), d) IN <<n \div g, d \div g>>

Zero == <<0, 1>>
One == <<1, 1>>
\* float('inf')
Inf == <<1, 0>>

RNeg(a) == <<-a[1], a[2]>>

RAdd(a, b) ==
    LET g == GCD(a[2], b[2])
        l == (a[2] \div g) * b[2]
    IN R(a[1] * (l \div a[2]) + b[1] * (l \div b[2]), l)

RSub(a, b) == RAdd(a, RNeg(b))

RMul(a, b) ==
    LET g1 == GCD(Abs(a[1]), b[2])
        g2 == GCD(Abs(b[1]), a[2])
    IN R((a[1] \div g1) * (b[1] \div g2), (a[2] \div g2) * (b[2] \div g1))

RLeq(a, b) == a[1] * b[2] <= b[1] * a[2]
RLess(a, b) == a[1] * b[2] < b[1] * a[2]

(* ----------------------- library functions ---------------------------- *)
\* str(float) and the f-string conversion of a float: the shortest text that
\* reads back as the same value, here the fraction in lowest terms
PyStr(a) == ToString(a[1]) \o "/" \o ToString(a[2])

\* random.uniform(a, b) is a + (b - a) * random(), r the value of random()
uniform(a, b, r) == RAdd(a, RMul(RSub(b, a), r))

\* the values random.random() returns: [0, 1)
RandomValues == {R(k, RandDen) : k \in 0 .. RandDen - 1}

IdLo == 1000
IdHi == IdLo + IdSpan - 1
\* the values random.randint(1000, 9999) returns
RandInts == IdLo .. IdHi

\* math.cos / math.sin raise ValueError("math domain error") at infinity
MathDomainError(angle) == angle = Inf

\* math.cos(math.radians(angle)) and math.sin(math.radians(angle)), to three
\* decimals, for the angles the options below use
CosDeg(angle) ==
    CASE angle = <<45, 1>> -> R(707, 1000)
      [] angle = <<135, 1>> -> R(-707, 1000)
      [] OTHER -> One

SinDeg(angle) ==
    CASE angle = <<45, 1>> -> R(707, 1000)
      [] angle = <<135, 1>> -> R(707, 1000)
      [] OTHER -> Zero

(* ------------------------------ options ------------------------------- *)
Variants == {"ellipse", "teardrop"}

\* add_arguments' defaults of the two extensions that differ
DefaultShadowOpacity(v) == IF v = "ellipse" THEN R(515, 1000) ELSE R(2, 10)
DefaultHighlightOpacity(v) == IF v = "ellipse" THEN R(963, 1000) ELSE One
DefaultBlendMode(v) == IF v = "ellipse" THEN "normal" ELSE "hard-light"

\* <<drop_size, size_variation, teardrop_ratio, shadow_distance, highlight_size>>:
\* no jitter, the defaults, and a setting with size_variation >= 1
ShapeProfiles == {<<R(20, 1), Zero, R(3, 2), R(3, 1), R(3, 10)>>,
                  <<R(20, 1), R(3, 10), R(3, 2), R(3, 1), R(3, 10)>>,
                  <<R(1, 2), R(3, 2), R(2, 1), Zero, R(1, 2)>>}

AreaWidths == {Zero, R(200, 1)}
AreaHeights == {Zero, R(100, 1)}
RotationVariations(v) == IF v = "ellipse" THEN {Zero} ELSE {Zero, R(30, 1)}
\* <<shadow_angle, highlight_angle>>
AnglePairs == {<<R(45, 1), R(135, 1)>>, <<Inf, R(135, 1)>>, <<R(45, 1), Inf>>}

AllOptions ==
    {[variant |-> v,
      drop_count |-> c,
      drop_size |-> p[1],
      size_variation |-> p[2],
      teardrop_ratio |-> p[3],
      shadow_angle |-> a[1],
      shadow_distance |-> p[4],
      shadow_opacity |-> DefaultShadowOpacity(v),
      highlight_angle |-> a[2],
      highlight_size |-> p[5],
      highlight_opacity |-> DefaultHighlightOpacity(v),
      area_width |-> aw,
      area_height |-> ah,
      rotation_variation |-> rv,
      blend_mode |-> DefaultBlendMode(v)] :
        <<v, c, p, aw, ah, rv, a>> \in
            {t \in Variants \X (-1 .. MaxCount) \X ShapeProfiles
                   \X AreaWidths \X AreaHeights \X {Zero, R(30, 1)} \X AnglePairs :
                t[6] \in RotationVariations(t[1])}}

\* the number of uniform draws of one drop
UniformDraws(o) == IF o.variant = "ellipse" THEN 3 ELSE 4

\* the number of random draws of one drop whose value shows in the state
Varying(o, lg) ==
    IF lg THEN UniformDraws(o)
    ELSE (IF o.size_variation = Zero THEN 0 ELSE 1)
       + (IF o.area_width = Zero THEN 0 ELSE 1)
       + (IF o.area_height = Zero THEN 0 ELSE 1)
       + (IF o.variant = "ellipse" \/ o.rotation_variation = Zero THEN 0 ELSE 1)

\* b^e, cut off above MaxRuns
RECURSIVE CappedPow(_, _)
CappedPow(b, e) ==
    IF e <= 0 THEN 1
    ELSE LET q == CappedPow(b, e - 1)
         IN IF q > MaxRuns THEN q ELSE q * b

\* the leaves of the run tree of options o
Runs(o, lg) == CappedPow(IdSpan * IdSpan * CappedPow(RandDen, Varying(o, lg)), o.drop_count)

Tractable(o, lg) == Runs(o, lg) <= MaxRuns

(* ------------------------------- state -------------------------------- *)
VARIABLES
    options,     \* self.options
    pc,          \* the position of effect()
    i,           \* the loop variable of effect()
    drops,       \* create_single_drop's locals, one record per call
    drop_group,  \* the drop group under construction
    main_group,  \* effect()'s main_group
    layer,       \* the children of self.svg.get_current_layer()
    defs,        \* the children of self.svg.defs
    raised,      \* an exception reached effect()'s except clause
    logging,     \* whether draws records the random source
    draws        \* the values the random source returned, in order

vars == <<options, pc, i, drops, drop_group, main_group, layer, defs, raised,
          logging, draws>>

NoGroup == [label |-> "", children |-> <<>>]

\* the state effect() is entered in, for options o
Entry(o, lg) ==
    /\ Tractable(o, lg)
    /\ options = o
    /\ logging = lg
    /\ pc = "start"
    /\ i = 0
    /\ drops = <<>>
    /\ drop_group = NoGroup
    /\ main_group = NoGroup
    /\ layer = <<>>
    /\ defs = <<>>
    /\ raised = FALSE
    /\ draws = <<>>

Init == \E o \in AllOptions : Entry(o, FALSE)

\* the same runs, the random source recorded
InitLogged == \E o \in AllOptions : Entry(o, TRUE)

Log(vs) == IF logging THEN draws \o vs ELSE draws

(* ------------------------------ effect() ------------------------------ *)
MainLabel(v) == IF v = "ellipse" THEN "Sweat Drops" ELSE "Teardrop Sweat Drops"

\* effect(): up to the for loop
EffectBegin ==
    /\ pc = "start"
    /\ main_group' = [label |-> MainLabel(options.variant), children |-> <<>>]
    /\ i' = 0
    /\ pc' = "loop"
    /\ UNCHANGED <<options, drops, drop_group, layer, defs, raised, logging, draws>>


(* --------------------------- gradients -------------------------------- *)
Style2(k1, v1, k2, v2) == (k1 :> v1) @@ (k2 :> v2)
Style3(k1, v1, k2, v2, k3, v3) == (k1 :> v1) @@ (k2 :> v2) @@ (k3 :> v3)
Style4(k1, v1, k2, v2, k3, v3, k4, v4) ==
    (k1 :> v1) @@ (k2 :> v2) @@ (k3 :> v3) @@ (k4 :> v4)

\* inkex.Stop() with its offset and style
Stop(offset, color, opacity) ==
    [offset |-> offset, style |-> Style2("stop-color", color, "stop-opacity", opacity)]

\* f"shadowGradient_{random.randint(1000, 9999)}"
ShadowGradientId(n) == "shadowGradient_" \o ToString(n)

\* f"dropGradient_{random.randint(1000, 9999)}"
DropGradientId(n) == "dropGradient_" \o ToString(n)

\* the stops, the first with the highlight's opacity
ShadowStopsHighlightOpacity(o) ==
    <<Stop("0%", "#000000", PyStr(o.highlight_opacity)), Stop("100%", "#000000", "0.0")>>

\* the stops create_shadow_gradient adds, in order
ShadowStops(o) ==
    <<Stop("0%", "#000000", PyStr(o.shadow_opacity)), Stop("100%", "#000000", "0.0")>>

\* the stops create_drop_gradient adds, in order
DropStops ==
    <<Stop("0%", "#ffffff", "0.0"), Stop("37%", "#121212", "0.014"),
      Stop("100%", "#ffffff", "0.286")>>

\* the element create_shadow_gradient adds to defs
create_shadow_gradient(o, n) ==
    [tag |-> "linearGradient", id |-> ShadowGradientId(n), stops |-> ShadowStops(o)]

\* the element create_drop_gradient adds to defs
create_drop_gradient(n) ==
    [tag |-> "radialGradient", id |-> DropGradientId(n),
     cx |-> "0.3", cy |-> "0.3", r |-> "0.7", stops |-> DropStops]

FillUrl(gradient_id) == "url(#" \o gradient_id \o ")"

(* ------------------------ create_single_drop -------------------------- *)
\* the jitter alone, without the 1.0
SizeFactorJitterOnly(size_variation, r) == uniform(RNeg(size_variation), size_variation, r)

\* size_factor = 1.0 + random.uniform(-size_variation, size_variation)
SizeFactor(size_variation, r) == RAdd(One, uniform(RNeg(size_variation), size_variation, r))

\* drop_size = base_size * size_factor
ResolvedSize(base_size, size_factor) == RMul(base_size, size_factor)

\* a position drawn around 0
PositionAroundZero(extent, r) == uniform(RNeg(extent), extent, r)

\* x = random.uniform(0, area_width), y = random.uniform(0, area_height)
Position(extent, r) == uniform(Zero, extent, r)

\* the label numbered from 0
DropLabelFromZero(v, index) ==
    (IF v = "ellipse" THEN "Drop_" ELSE "Teardrop_") \o ToString(index)

\* f"Drop_{index + 1}" / f"Teardrop_{index + 1}"
DropLabel(v, index) ==
    (IF v = "ellipse" THEN "Drop_" ELSE "Teardrop_") \o ToString(index + 1)

\* the locals of the running create_single_drop / create_single_teardrop
Cur == drops[Len(drops)]

AddChild(group, element) == [group EXCEPT !.children = Append(@, element)]

\* the center of the shadow: the position moved by shadow_distance along shadow_angle
ShadowCenter(o, x, y) ==
    <<RAdd(x, RMul(CosDeg(o.shadow_angle), o.shadow_distance)),
      RAdd(y, RMul(SinDeg(o.shadow_angle), o.shadow_distance))>>

\* the center of the highlight: the position moved by size * fraction along highlight_angle
HighlightCenter(o, x, y, size, fraction) ==
    LET highlight_offset == RMul(size, fraction)
    IN <<RAdd(x, RMul(CosDeg(o.highlight_angle), highlight_offset)),
         RAdd(y, RMul(SinDeg(o.highlight_angle), highlight_offset))>>

(* --------------------------- sweat_drop.py ---------------------------- *)
\* the Ellipse create_shadow returns
create_shadow(o, x, y, size, shadow_gradient_id) ==
    LET c == ShadowCenter(o, x, y)
    IN [tag |-> "ellipse",
        cx |-> PyStr(c[1]), cy |-> PyStr(c[2]),
        rx |-> PyStr(RMul(size, R(6, 10))), ry |-> PyStr(RMul(size, R(8, 10))),
        style |-> Style3("fill", FillUrl(shadow_gradient_id), "stroke", "none",
                         "mix-blend-mode", o.blend_mode)]

\* the Ellipse create_main_drop returns
create_main_drop(o, x, y, size, gradient_id) ==
    [tag |-> "ellipse",
     cx |-> PyStr(x), cy |-> PyStr(y),
     rx |-> PyStr(RMul(size, R(6, 10))), ry |-> PyStr(RMul(size, R(8, 10))),
     style |-> Style4("fill", FillUrl(gradient_id), "stroke", "none",
                      "mix-blend-mode", o.blend_mode, "opacity", "1")]

\* the Ellipse create_highlight returns
create_highlight(o, x, y, size) ==
    LET c == HighlightCenter(o, x, y, size, R(3, 10))
        highlight_size == RMul(size, o.highlight_size)
    IN [tag |-> "ellipse",
        cx |-> PyStr(c[1]), cy |-> PyStr(c[2]),
        rx |-> PyStr(RMul(highlight_size, R(4, 10))),
        ry |-> PyStr(RMul(highlight_size, R(6, 10))),
        style |-> Style4("fill", "#ffffff", "fill-opacity", PyStr(o.highlight_opacity),
                         "stroke", "none", "mix-blend-mode", o.blend_mode)]

\* create_single_drop drawing y before x
CreateSingleDropYFirst ==
    /\ pc = "loop"
    /\ options.variant = "ellipse"
    /\ i < options.drop_count
    /\ \E r1, r2, r3 \in RandomValues :
          /\ drops' = Append(drops,
                [index |-> i,
                 drop_size |-> ResolvedSize(options.drop_size,
                                            SizeFactor(options.size_variation, r1)),
                 x |-> Position(options.area_width, r3),
                 y |-> Position(options.area_height, r2),
                 rotation |-> Zero])
          /\ draws' = Log(<<r1, r2, r3>>)
    /\ drop_group' = [label |-> DropLabel(options.variant, i), children |-> <<>>]
    /\ pc' = "shadow"
    /\ UNCHANGED <<options, i, main_group, layer, defs, raised, logging>>

\* create_single_drop up to its first call: the three draws and the group
CreateSingleDrop ==
    /\ pc = "loop"
    /\ options.variant = "ellipse"
    /\ i < options.drop_count
    /\ \E r1, r2, r3 \in RandomValues :
          /\ drops' = Append(drops,
                [index |-> i,
                 drop_size |-> ResolvedSize(options.drop_size,
                                            SizeFactor(options.size_variation, r1)),
                 x |-> Position(options.area_width, r2),
                 y |-> Position(options.area_height, r3),
                 rotation |-> Zero])
          /\ draws' = Log(<<r1, r2, r3>>)
    /\ drop_group' = [label |-> DropLabel(options.variant, i), children |-> <<>>]
    /\ pc' = "shadow"
    /\ UNCHANGED <<options, i, main_group, layer, defs, raised, logging>>

\* create_shadow with its call of create_shadow_gradient
CreateShadow ==
    /\ pc = "shadow"
    /\ options.variant = "ellipse"
    /\ IF MathDomainError(options.shadow_angle)
       THEN /\ pc' = "except"
            /\ UNCHANGED <<drop_group, defs, draws>>
       ELSE \E n \in RandInts :
            /\ defs' = Append(defs, create_shadow_gradient(options, n))
            /\ drop_group' = AddChild(drop_group,
                   create_shadow(options, Cur.x, Cur.y, Cur.drop_size, ShadowGradientId(n)))
            /\ draws' = Log(<<n>>)
            /\ pc' = "main"
    /\ UNCHANGED <<options, i, drops, main_group, layer, raised, logging>>

\* create_main_drop with its call of create_drop_gradient
CreateMainDrop ==
    /\ pc = "main"
    /\ options.variant = "ellipse"
    /\ \E n \in RandInts :
          /\ defs' = Append(defs, create_drop_gradient(n))
          /\ drop_group' = AddChild(drop_group,
                 create_main_drop(options, Cur.x, Cur.y, Cur.drop_size, DropGradientId(n)))
          /\ draws' = Log(<<n>>)
    /\ pc' = "highlight"
    /\ UNCHANGED <<options, i, drops, main_group, layer, raised, logging>>

\* create_highlight
CreateHighlight ==
    /\ pc = "highlight"
    /\ options.variant = "ellipse"
    /\ IF MathDomainError(options.highlight_angle)
       THEN /\ pc' = "except"
            /\ UNCHANGED drop_group
       ELSE /\ drop_group' = AddChild(drop_group,
                   create_highlight(options, Cur.x, Cur.y, Cur.drop_size))
            /\ pc' = "add"
    /\ UNCHANGED <<options, i, drops, main_group, layer, defs, raised, logging, draws>>

(* ------------------------ sweatdrop_teardrop.py ----------------------- *)
\* f"{a},{b}": one coordinate pair of the path data
Pair(a, b) == PyStr(a) \o "," \o PyStr(b)

\* the path with its last segment ending at the middle height, not at the bottom
create_teardrop_path_open(o, x, y, size, rotation) ==
    LET width == RMul(size, R(6, 10))
        height == RMul(size, o.teardrop_ratio)
        bottom_y == RAdd(y, RMul(height, R(3, 10)))
        top_y == RSub(y, RMul(height, R(7, 10)))
        cx1 == RSub(x, RMul(width, R(5, 10)))
        cx2 == RAdd(x, RMul(width, R(5, 10)))
        cy_mid == y
    IN <<"M", Pair(x, bottom_y),
         "C", Pair(cx1, bottom_y), Pair(cx1, cy_mid),
              Pair(cx1, RSub(cy_mid, RMul(height, R(2, 10)))),
         "C", Pair(cx1, RAdd(top_y, RMul(height, R(3, 10)))),
              Pair(RSub(x, RMul(width, R(2, 10))), RAdd(top_y, RMul(height, R(1, 10)))),
              Pair(x, top_y),
         "C", Pair(RAdd(x, RMul(width, R(2, 10))), RAdd(top_y, RMul(height, R(1, 10)))),
              Pair(cx2, RAdd(top_y, RMul(height, R(3, 10)))),
              Pair(cx2, RSub(cy_mid, RMul(height, R(2, 10)))),
         "C", Pair(cx2, cy_mid), Pair(cx2, bottom_y), Pair(x, cy_mid),
         "Z">>

\* create_teardrop_path: the path data, as the list path_data.split() yields
\* and " ".join() glues together again
create_teardrop_path(o, x, y, size, rotation) ==
    LET width == RMul(size, R(6, 10))
        height == RMul(size, o.teardrop_ratio)
        bottom_y == RAdd(y, RMul(height, R(3, 10)))
        top_y == RSub(y, RMul(height, R(7, 10)))
        cx1 == RSub(x, RMul(width, R(5, 10)))
        cx2 == RAdd(x, RMul(width, R(5, 10)))
        cy_mid == y
    IN <<"M", Pair(x, bottom_y),
         "C", Pair(cx1, bottom_y), Pair(cx1, cy_mid),
              Pair(cx1, RSub(cy_mid, RMul(height, R(2, 10)))),
         "C", Pair(cx1, RAdd(top_y, RMul(height, R(3, 10)))),
              Pair(RSub(x, RMul(width, R(2, 10))), RAdd(top_y, RMul(height, R(1, 10)))),
              Pair(x, top_y),
         "C", Pair(RAdd(x, RMul(width, R(2, 10))), RAdd(top_y, RMul(height, R(1, 10)))),
              Pair(cx2, RAdd(top_y, RMul(height, R(3, 10)))),
              Pair(cx2, RSub(cy_mid, RMul(height, R(2, 10)))),
         "C", Pair(cx2, cy_mid), Pair(cx2, bottom_y), Pair(x, bottom_y),
         "Z">>

\* the transform attached whatever the rotation
RotateTransformAlways(rotation, cx, cy) == <<"rotate", rotation, cx, cy>>

\* no transform attribute
NoTransform == <<>>

\* if rotation != 0: path.transform = inkex.Transform(rotate=(rotation, cx, cy))
RotateTransform(rotation, cx, cy) ==
    IF rotation # Zero THEN <<"rotate", rotation, cx, cy>> ELSE NoTransform

\* rotation = random.uniform(-rotation_variation, rotation_variation)
Rotation(rotation_variation, r) == uniform(RNeg(rotation_variation), rotation_variation, r)

\* the PathElement create_teardrop_shadow returns
create_teardrop_shadow(o, x, y, size, rotation, shadow_gradient_id) ==
    LET c == ShadowCenter(o, x, y)
    IN [tag |-> "path",
        d |-> create_teardrop_path(o, c[1], c[2], size, rotation),
        style |-> Style3("fill", FillUrl(shadow_gradient_id), "stroke", "none",
                         "mix-blend-mode", o.blend_mode),
        transform |-> RotateTransform(rotation, c[1], c[2])]

\* the PathElement create_teardrop_main returns
create_teardrop_main(o, x, y, size, rotation, gradient_id) ==
    [tag |-> "path",
     d |-> create_teardrop_path(o, x, y, size, rotation),
     style |-> Style4("fill", FillUrl(gradient_id), "stroke", "none",
                      "mix-blend-mode", o.blend_mode, "opacity", "1"),
     transform |-> RotateTransform(rotation, x, y)]

\* the PathElement create_teardrop_highlight returns
create_teardrop_highlight(o, x, y, size, rotation) ==
    LET c == HighlightCenter(o, x, y, size, R(2, 10))
        highlight_size == RMul(size, o.highlight_size)
    IN [tag |-> "path",
        d |-> create_teardrop_path(o, c[1], c[2], highlight_size, rotation),
        style |-> Style4("fill", "#ffffff", "fill-opacity", PyStr(o.highlight_opacity),
                         "stroke", "none", "mix-blend-mode", o.blend_mode),
        transform |-> RotateTransform(rotation, c[1], c[2])]

\* create_single_teardrop up to its first call: the four draws and the group
CreateSingleTeardrop ==
    /\ pc = "loop"
    /\ options.variant = "teardrop"
    /\ i < options.drop_count
    /\ \E r1, r2, r3, r4 \in RandomValues :
          /\ drops' = Append(drops,
                [index |-> i,
                 drop_size |-> ResolvedSize(options.drop_size,
                                            SizeFactor(options.size_variation, r1)),
                 x |-> Position(options.area_width, r2),
                 y |-> Position(options.area_height, r3),
                 rotation |-> Rotation(options.rotation_variation, r4)])
          /\ draws' = Log(<<r1, r2, r3, r4>>)
    /\ drop_group' = [label |-> DropLabel(options.variant, i), children |-> <<>>]
    /\ pc' = "shadow"
    /\ UNCHANGED <<options, i, main_group, layer, defs, raised, logging>>

\* create_teardrop_shadow with its call of create_shadow_gradient
CreateTeardropShadow ==
    /\ pc = "shadow"
    /\ options.variant = "teardrop"
    /\ IF MathDomainError(options.shadow_angle)
       THEN /\ pc' = "except"
            /\ UNCHANGED <<drop_group, defs, draws>>
       ELSE \E n \in RandInts :
            /\ defs' = Append(defs, create_shadow_gradient(options, n))
            /\ drop_group' = AddChild(drop_group,
                   create_teardrop_shadow(options, Cur.x, Cur.y, Cur.drop_size,
                                          Cur.rotation, ShadowGradientId(n)))
            /\ draws' = Log(<<n>>)
            /\ pc' = "main"
    /\ UNCHANGED <<options, i, drops, main_group, layer, raised, logging>>

\* create_teardrop_main with its call of create_drop_gradient
CreateTeardropMain ==
    /\ pc = "main"
    /\ options.variant = "teardrop"
    /\ \E n \in RandInts :
          /\ defs' = Append(defs, create_drop_gradient(n))
          /\ drop_group' = AddChild(drop_group,
                 create_teardrop_main(options, Cur.x, Cur.y, Cur.drop_size,
                                      Cur.rotation, DropGradientId(n)))
          /\ draws' = Log(<<n>>)
    /\ pc' = "highlight"
    /\ UNCHANGED <<options, i, drops, main_group, layer, raised, logging>>

\* create_teardrop_highlight
CreateTeardropHighlight ==
    /\ pc = "highlight"
    /\ options.variant = "teardrop"
    /\ IF MathDomainError(options.highlight_angle)
       THEN /\ pc' = "except"
            /\ UNCHANGED drop_group
       ELSE /\ drop_group' = AddChild(drop_group,
                   create_teardrop_highlight(options, Cur.x, Cur.y, Cur.drop_size,
                                             Cur.rotation))
            /\ pc' = "add"
    /\ UNCHANGED <<options, i, drops, main_group, layer, defs, raised, logging, draws>>

(* -------------------------- effect(), the rest ------------------------ *)
\* main_group.add(drop_group) and the loop's step
AddDropGroup ==
    /\ pc = "add"
    /\ main_group' = AddChild(main_group, drop_group)
    /\ i' = i + 1
    /\ pc' = "loop"
    /\ UNCHANGED <<options, drops, drop_group, layer, defs, raised, logging, draws>>

\* current_layer.add(main_group), after the loop
AttachMainGroup ==
    /\ pc = "loop"
    /\ ~(i < options.drop_count)
    /\ layer' = Append(layer, main_group)
    /\ pc' = "done"
    /\ UNCHANGED <<options, i, drops, drop_group, main_group, defs, raised, logging, draws>>

\* except Exception as e: pass
ExceptPass ==
    /\ pc = "except"
    /\ raised' = TRUE
    /\ pc' = "done"
    /\ UNCHANGED <<options, i, drops, drop_group, main_group, layer, defs, logging, draws>>

Next ==
    \/ EffectBegin
    \/ CreateSingleDrop
    \/ CreateShadow
    \/ CreateMainDrop
    \/ CreateHighlight
    \/ CreateSingleTeardrop
    \/ CreateTeardropShadow
    \/ CreateTeardropMain
    \/ CreateTeardropHighlight
    \/ AddDropGroup
    \/ AttachMainGroup
    \/ ExceptPass

Spec == Init /\ [][Next]_vars

SpecLogged == InitLogged /\ [][Next]_vars

(* ------------------------------ claims -------------------------------- *)
\* the indices of the drops whose group the loop has added to main_group
Built == 1 .. Len(main_group.children)

Group(k) == main_group.children[k]

\* C1: a run that completes without an exception adds exactly one main group
\* to the layer, holding drop_count drop groups labelled Drop_1 .. Drop_N
\* (Teardrop_1 .. Teardrop_N) in index order, none when drop_count = 0; until
\* then the layer holds nothing.
C1_OneMainGroupWithCountDrops ==
    options.drop_count >= 0 =>
        IF pc = "done" /\ ~raised
        THEN /\ Len(layer) = 1
             /\ layer[1].label =
                    (IF options.variant = "ellipse" THEN "Sweat Drops"
                     ELSE "Teardrop Sweat Drops")
             /\ Len(layer[1].children) = options.drop_count
             /\ \A k \in 1 .. Len(layer[1].children) :
                   /\ layer[1].children[k].label =
                          (IF options.variant = "ellipse" THEN "Drop_" ELSE "Teardrop_")
                              \o ToString(k)
                   /\ Len(layer[1].children[k].children) = 3
                   /\ drops[k].index = k - 1
        ELSE layer = <<>>

C1_Witness ==
    /\ pc = "done"
    /\ ~raised
    /\ options.drop_count = 2
    /\ Len(layer) = 1
    /\ Len(layer[1].children) = 2

\* C2: all gradient definitions in defs have pairwise distinct identifiers.
C2_DistinctGradientIds ==
    \A a, b \in DOMAIN defs : a # b => defs[a].id # defs[b].id

\* C3: for drop_size > 0 and size_variation >= 0 the resolved size of every
\* drop lies in [base_size * (1 - size_variation), base_size * (1 + size_variation)],
\* and the shadow, the body and the highlight of the drop are built from that
\* same size.
C3_SizeWithinVariation ==
    (RLess(Zero, options.drop_size) /\ RLeq(Zero, options.size_variation)) =>
        /\ \A k \in DOMAIN drops :
              /\ RLeq(RMul(options.drop_size, RSub(One, options.size_variation)),
                      drops[k].drop_size)
              /\ RLeq(drops[k].drop_size,
                      RMul(options.drop_size, RAdd(One, options.size_variation)))
        /\ \A k \in Built :
              LET size == drops[k].drop_size
                  hsize == RMul(size, options.highlight_size)
                  sc == ShadowCenter(options, drops[k].x, drops[k].y)
                  hc == HighlightCenter(options, drops[k].x, drops[k].y, size,
                            IF options.variant = "ellipse" THEN R(3, 10) ELSE R(2, 10))
                  bottom(cy, sz) ==
                      RAdd(cy, RMul(RMul(sz, options.teardrop_ratio), R(3, 10)))
                  g == Group(k).children
              IN IF options.variant = "ellipse"
                 THEN /\ g[1].rx = PyStr(RMul(size, R(6, 10)))
                      /\ g[1].ry = PyStr(RMul(size, R(8, 10)))
                      /\ g[2].rx = PyStr(RMul(size, R(6, 10)))
                      /\ g[2].ry = PyStr(RMul(size, R(8, 10)))
                      /\ g[3].rx = PyStr(RMul(hsize, R(4, 10)))
                      /\ g[3].ry = PyStr(RMul(hsize, R(6, 10)))
                 ELSE /\ g[1].d[2] = Pair(sc[1], bottom(sc[2], size))
                      /\ g[2].d[2] = Pair(drops[k].x, bottom(drops[k].y, size))
                      /\ g[3].d[2] = Pair(hc[1], bottom(hc[2], hsize))

C3_Witness ==
    \E k \in Built :
        /\ RLess(Zero, options.size_variation)
        /\ RLess(drops[k].drop_size, options.drop_size)
        /\ RLess(Zero, drops[k].drop_size)

C5_DrawsDecideDropsInOrder ==
    logging =>
        LET u == IF options.variant = "ellipse" THEN 3 ELSE 4
            per == u + 2
            off(k) == (k - 1) * per
        IN /\ \A k \in DOMAIN drops :
                 /\ Len(draws) >= off(k) + u
                 /\ drops[k].drop_size =
                        RMul(options.drop_size,
                             RAdd(One, uniform(RNeg(options.size_variation),
                                               options.size_variation, draws[off(k) + 1])))
                 /\ drops[k].x = uniform(Zero, options.area_width, draws[off(k) + 2])
                 /\ drops[k].y = uniform(Zero, options.area_height, draws[off(k) + 3])
                 /\ drops[k].rotation =
                        (IF options.variant = "ellipse" THEN Zero
                         ELSE uniform(RNeg(options.rotation_variation),
                                      options.rotation_variation, draws[off(k) + 4]))
           /\ \A k \in Built :
                 /\ defs[2 * k - 1].id = "shadowGradient_" \o ToString(draws[off(k) + u + 1])
                 /\ defs[2 * k].id = "dropGradient_" \o ToString(draws[off(k) + u + 2])
                 /\ Group(k).children[1].style["fill"] =
                        "url(#shadowGradient_" \o ToString(draws[off(k) + u + 1]) \o ")"
                 /\ Group(k).children[2].style["fill"] =
                        "url(#dropGradient_" \o ToString(draws[off(k) + u + 2]) \o ")"
           /\ pc = "loop" => Len(draws) = i * per
           /\ (pc = "done" /\ ~raised /\ options.drop_count >= 0) =>
                  /\ Len(draws) = options.drop_count * per
                  /\ layer[1].children = main_group.children

C5_Witness ==
    /\ logging
    /\ pc = "done"
    /\ ~raised
    /\ options.drop_count = 2
    /\ Len(draws) = 10
    /\ draws[2] # draws[3]
    /\ draws[4] # draws[9]
    /\ drops[1].x # drops[2].x

\* the path elements of the drop groups built so far and of the one under construction
Paths ==
    {Group(k).children[j] : k \in Built, j \in 1 .. 3}
        \cup {drop_group.children[j] : j \in 1 .. Len(drop_group.children)}

\* C6: every teardrop path is a closed contour of exactly four cubic Bezier
\* segments: the move-to point (x, y + height * 0.3) is the end point of the
\* last segment, and the second segment ends at the top point (x, y - height * 0.7).
C6_TeardropPathClosed ==
    options.variant = "teardrop" =>
        /\ \A e \in Paths :
              /\ e.tag = "path"
              /\ Len(e.d) = 19
              /\ e.d[1] = "M"
              /\ {j \in 1 .. 19 : e.d[j] = "C"} = {3, 7, 11, 15}
              /\ e.d[19] = "Z"
              /\ e.d[2] = e.d[18]
        /\ \A k \in Built :
              LET height == RMul(drops[k].drop_size, options.teardrop_ratio)
                  body == Group(k).children[2]
              IN /\ body.d[2] = Pair(drops[k].x, RAdd(drops[k].y, RMul(height, R(3, 10))))
                 /\ body.d[18] = Pair(drops[k].x, RAdd(drops[k].y, RMul(height, R(3, 10))))
                 /\ body.d[10] = Pair(drops[k].x, RSub(drops[k].y, RMul(height, R(7, 10))))

C6_Witness ==
    /\ options.variant = "teardrop"
    /\ \E k \in Built :
          /\ RLess(Zero, drops[k].drop_size)
          /\ RLess(Zero, drops[k].x)
          /\ Group(k).children[2].d[2] # Group(k).children[2].d[10]
          /\ Group(k).children[2].d[2] = Group(k).children[2].d[18]

\* C7: every shadow gradient has exactly the stops (0%, black, shadow_opacity),
\* (100%, black, 0.0), and every body gradient is radial with center (0.3, 0.3),
\* radius 0.7 and the stops (0%, white, 0.0), (37%, #121212, 0.014),
\* (100%, white, 0.286), whatever the drop's index, position, size and rotation;
\* each drop's shadow and body are filled with such a pair.
C7_GradientRecipeFixed ==
    LET stop(offset, color, opacity) ==
            [offset |-> offset,
             style |-> ("stop-color" :> color) @@ ("stop-opacity" :> opacity)]
    IN /\ \A j \in DOMAIN defs :
             IF defs[j].tag = "linearGradient"
             THEN defs[j].stops =
                      <<stop("0%", "#000000", PyStr(options.shadow_opacity)),
                        stop("100%", "#000000", "0.0")>>
             ELSE /\ defs[j].tag = "radialGradient"
                  /\ defs[j].cx = "0.3"
                  /\ defs[j].cy = "0.3"
                  /\ defs[j].r = "0.7"
                  /\ defs[j].stops =
                         <<stop("0%", "#ffffff", "0.0"), stop("37%", "#121212", "0.014"),
                           stop("100%", "#ffffff", "0.286")>>
       /\ \A k \in Built :
             /\ defs[2 * k - 1].tag = "linearGradient"
             /\ Group(k).children[1].style["fill"] = "url(#" \o defs[2 * k - 1].id \o ")"
             /\ defs[2 * k].tag = "radialGradient"
             /\ Group(k).children[2].style["fill"] = "url(#" \o defs[2 * k].id \o ")"

C7_Witness ==
    /\ Len(main_group.children) = 2
    /\ Len(defs) = 4
    /\ drops[1].x # drops[2].x
    /\ drops[1].drop_size # drops[2].drop_size
    /\ defs[1].stops = defs[3].stops
    /\ defs[2].stops = defs[4].stops

\* C8: no run ever emits a drop whose resolved size is zero or negative (options
\* that allow one, such as size_variation >= 1, make the call fail instead).
C8_InvalidParameterFailsFast ==
    \A g \in DOMAIN layer :
        \A k \in DOMAIN layer[g].children : RLess(Zero, drops[k].drop_size)

\* C9: in the teardrop variant the path of each shape is the one built for
\* rotation 0; a rotate transform is attached exactly when the sampled rotation
\* is non-zero, about the shape's own center (the shadow's offset center, the
\* position, the highlight's offset center), with the same angle for the three
\* shapes of a drop, and the angle lies in [-rotation_variation, rotation_variation].
C9_RotationIsATransform ==
    options.variant = "teardrop" =>
        /\ \A k \in DOMAIN drops :
              /\ RLeq(RNeg(options.rotation_variation), drops[k].rotation)
              /\ RLeq(drops[k].rotation, options.rotation_variation)
        /\ \A k \in Built :
              LET x == drops[k].x
                  y == drops[k].y
                  size == drops[k].drop_size
                  rot == drops[k].rotation
                  sc == ShadowCenter(options, x, y)
                  hc == HighlightCenter(options, x, y, size, R(2, 10))
                  turned(cx, cy) == IF rot = Zero THEN <<>> ELSE <<"rotate", rot, cx, cy>>
                  g == Group(k).children
              IN /\ g[1].d = create_teardrop_path(options, sc[1], sc[2], size, Zero)
                 /\ g[1].transform = turned(sc[1], sc[2])
                 /\ g[2].d = create_teardrop_path(options, x, y, size, Zero)
                 /\ g[2].transform = turned(x, y)
                 /\ g[3].d = create_teardrop_path(options, hc[1], hc[2],
                                 RMul(size, options.highlight_size), Zero)
                 /\ g[3].transform = turned(hc[1], hc[2])

C9_Witness ==
    /\ options.variant = "teardrop"
    /\ \E k \in Built :
          /\ drops[k].rotation # Zero
          /\ RLess(Zero, drops[k].drop_size)
          /\ Group(k).children[1].transform # Group(k).children[2].transform
          /\ Group(k).children[2].transform = <<"rotate", drops[k].rotation, drops[k].x, drops[k].y>>

\* C10: when building a drop raises, effect() returns with no new group in the
\* layer and no gradient definition added to defs.
C10_FailureLeavesDocumentUnchanged ==
    (pc = "done" /\ raised) => (layer = <<>> /\ defs = <<>>)

====
